---- MODULE Spec2Model ----
(***************************************************************************)
(* Model of the route planner and of the input merger of phits_map_edit:   *)
(*   - route_calculator.py: find_optimal_route / run_astar (weighted A*    *)
(*     over the 4-connected facility grid) and resample_path_by_width      *)
(*     (arc-length resampling of a physical polyline);                     *)
(*   - phits_handler.py: AdvancedPhitsMerger (parse, renumber, re-link,    *)
(*     render of two sectioned PHITS input texts).                         *)
(* Costs, doses, weights and coordinates are naturals: the float           *)
(* arithmetic of the source is exact on them.                              *)
(***************************************************************************)
EXTENDS Integers, Sequences, FiniteSets, TLC

VARIABLES
    map_data,      \* grid of cell-type codes, map_data[r][c]
    dose_map,      \* grid of doses, dose_map[r][c], or None
    weight,        \* weight of the dose term of the move cost
    start_pos,     \* (row, col) of the start
    goal_pos,      \* (row, col) of the goal
    middle_pos,    \* (row, col) of the waypoint, or None
    full_path,     \* what find_optimal_route returned
    physical_path, \* polyline handed to resample_path_by_width
    step_width,    \* step width handed to resample_path_by_width
    new_path,      \* what resample_path_by_width returned
    base_content,  \* text handed to AdvancedPhitsMerger as base_content
    merge_content, \* text handed to AdvancedPhitsMerger as merge_content
    base_sections, \* self.base_sections
    merge_sections,\* self.merge_sections
    id_maps,       \* self.id_maps
    merged,        \* the texts returned by the calls of merge(), in order
    search,        \* run_astar's queue, visited, min_costs and result, step by step
    popped,        \* the entry the last heappop returned and the queue it came from
    expanded,      \* the cells run_astar added to visited, in order
    cell,          \* (r, c) handed to get_physical_coords
    coords,        \* what get_physical_coords returned
    pc             \* "call" before the call, "done" after it returned;
                   \* for the merger "new" before __init__, then "ready"

mergerVars == <<base_content, merge_content, base_sections, merge_sections,
                id_maps, merged>>

stepVars == <<search, popped, expanded, cell, coords>>

vars == <<map_data, dose_map, weight, start_pos, goal_pos, middle_pos,
          full_path, physical_path, step_width, new_path, mergerVars, stepVars, pc>>

(* No merger was constructed, no search is under way and no cell address   *)
(* was converted.                                                           *)
NoMerger ==
    /\ search = <<>>
    /\ popped = <<>>
    /\ expanded = <<>>
    /\ cell = <<>>
    /\ coords = <<>>
    /\ base_content = <<>>
    /\ merge_content = <<>>
    /\ base_sections = <<>>
    /\ merge_sections = <<>>
    /\ id_maps = <<>>
    /\ merged = <<>>

----------------------------------------------------------------------------
(* Bounds of the model *)

MAP_ROWS == 3
MAP_COLS == 3
MaxWalls == 2
MaxHot == 1
MaxDose == 1
MaxWeight == 3
MaxCoord == 2
MaxPoints == 4
MaxStep == 3

(* Program constants *)

WALL == 1
FLOOR == 0

None == <<>>

Rows == 0 .. (MAP_ROWS - 1)
Cols == 0 .. (MAP_COLS - 1)
Cells == Rows \X Cols

Abs(n) == IF n < 0 THEN -n ELSE n

----------------------------------------------------------------------------
(* Python's ordering of the heap entries (priority, cost, position, path):  *)
(* tuples and lists compare lexicographically.                              *)

LessCell(a, b) == a[1] < b[1] \/ (a[1] = b[1] /\ a[2] < b[2])

RECURSIVE LessPath(_, _)
LessPath(p, q) ==
    IF q = <<>> THEN FALSE
    ELSE IF p = <<>> THEN TRUE
    ELSE IF Head(p) # Head(q) THEN LessCell(Head(p), Head(q))
    ELSE LessPath(Tail(p), Tail(q))

LessEntry(a, b) ==
    IF a[1] # b[1] THEN a[1] < b[1]
    ELSE IF a[2] # b[2] THEN a[2] < b[2]
    ELSE IF a[3] # b[3] THEN LessCell(a[3], b[3])
    ELSE LessPath(a[4], b[4])

(* Faulty variant: the pop leaves the entry in the queue. *)
RemoveAt_Keeps(s, i) == s

(* Faulty variant: among the entries of least priority, the first pushed. *)
HeapMinIndex_Fifo(queue) ==
    CHOOSE i \in 1..Len(queue) :
        \A j \in 1..Len(queue) :
            /\ queue[i][1] <= queue[j][1]
            /\ (j < i => queue[i][1] < queue[j][1])

(* heapq.heappop: the index of the least entry of the queue, and the queue  *)
(* without it.  The queue is kept in push order; the least entry is what    *)
(* the binary heap yields whatever its internal layout.                     *)
HeapMinIndex(queue) ==
    CHOOSE i \in 1..Len(queue) :
        \A j \in 1..Len(queue) :
            /\ ~LessEntry(queue[j], queue[i])
            /\ (j < i => LessEntry(queue[i], queue[j]))

RemoveAt(s, i) == SubSeq(s, 1, i - 1) \o SubSeq(s, i + 1, Len(s))

heappush(queue, entry) == Append(queue, entry)

----------------------------------------------------------------------------
(* run_astar *)

(* Faulty variant: the move to the right is missing. *)
Directions_NoRight == << <<-1, 0>>, <<1, 0>>, <<0, -1>> >>

Directions == << <<-1, 0>>, <<1, 0>>, <<0, -1>>, <<0, 1>> >>

InBounds(nr, nc) == 0 <= nr /\ nr < MAP_ROWS /\ 0 <= nc /\ nc < MAP_COLS

(* Faulty variant: walls are not tested. *)
IsWall_Never(grid, nr, nc) == FALSE

IsWall(grid, nr, nc) == grid[nr][nc] = WALL

(* Faulty variant: the dose term is dropped. *)
MoveCost_IgnoresDose(dose, w, nr, nc) == 1

MoveCost(dose, w, nr, nc) == 1 + (dose[nr][nc] * w)

(* Faulty variant: an inadmissible heuristic. *)
Heuristic_Tripled(goal, nr, nc) == 3 * (Abs(goal[1] - nr) + Abs(goal[2] - nc))

Heuristic(goal, nr, nc) == Abs(goal[1] - nr) + Abs(goal[2] - nc)

ShouldPush(min_costs, next_pos, new_cost) ==
    next_pos \notin DOMAIN min_costs \/ new_cost < min_costs[next_pos]

(* The for loop over the four directions, from direction i on, for the      *)
(* popped entry (cost, current, path): returns the queue and min_costs.     *)
RECURSIVE ExpandFrom(_, _, _, _, _, _, _, _, _)
ExpandFrom(i, cost, current, path, goal, grid, dose, w, qm) ==
    IF i > Len(Directions) THEN qm
    ELSE
        LET nr == current[1] + Directions[i][1]
            nc == current[2] + Directions[i][2]
            next_pos == <<nr, nc>>
        IN  IF ~InBounds(nr, nc)
            THEN ExpandFrom(i + 1, cost, current, path, goal, grid, dose, w, qm)
            ELSE IF IsWall(grid, nr, nc)
            THEN ExpandFrom(i + 1, cost, current, path, goal, grid, dose, w, qm)
            ELSE
                LET new_cost == cost + MoveCost(dose, w, nr, nc)
                IN  IF ShouldPush(qm.min_costs, next_pos, new_cost)
                    THEN LET priority == new_cost + Heuristic(goal, nr, nc)
                             entry == <<priority, new_cost, next_pos,
                                        Append(path, next_pos)>>
                             mc == [p \in (DOMAIN qm.min_costs) \cup {next_pos} |->
                                       IF p = next_pos THEN new_cost
                                       ELSE qm.min_costs[p]]
                         IN  ExpandFrom(i + 1, cost, current, path, goal, grid,
                                        dose, w,
                                        [queue |-> heappush(qm.queue, entry),
                                         min_costs |-> mc])
                    ELSE ExpandFrom(i + 1, cost, current, path, goal, grid,
                                    dose, w, qm)

(* The state of the search before the while loop. *)
AstarInit(start) ==
    [queue |-> << <<0, 0, start, <<start>> >> >>,
     visited |-> {},
     min_costs |-> [p \in {start} |-> 0],
     returned |-> FALSE,
     result |-> None]

(* One iteration of the while loop (or the return after it). *)
AstarStep(st, goal, grid, dose, w) ==
    IF st.queue = <<>>
    THEN [st EXCEPT !.returned = TRUE, !.result = None]
    ELSE
        LET i == HeapMinIndex(st.queue)
            e == st.queue[i]
            rest == RemoveAt(st.queue, i)
            cost == e[2]
            current == e[3]
            path == e[4]
        IN  IF current = goal
            THEN [st EXCEPT !.queue = rest, !.returned = TRUE, !.result = path]
            ELSE IF current \in st.visited
            THEN [st EXCEPT !.queue = rest]
            ELSE
                LET qm == ExpandFrom(1, cost, current, path, goal, grid, dose, w,
                                     [queue |-> rest, min_costs |-> st.min_costs])
                IN  [st EXCEPT !.queue = qm.queue,
                               !.visited = st.visited \cup {current},
                               !.min_costs = qm.min_costs]

RECURSIVE AstarLoop(_, _, _, _, _)
AstarLoop(st, goal, grid, dose, w) ==
    IF st.returned THEN st.result
    ELSE AstarLoop(AstarStep(st, goal, grid, dose, w), goal, grid, dose, w)

run_astar(start, goal, grid, dose, w) ==
    AstarLoop(AstarInit(start), goal, grid, dose, w)

----------------------------------------------------------------------------
(* find_optimal_route *)

ZeroDoseMap == [r \in Rows |-> [c \in Cols |-> 0]]

(* Faulty variant: path1 + path2, the waypoint kept twice. *)
JoinLegs_KeepsBothWaypoints(path1, path2) == path1 \o path2

JoinLegs(path1, path2) == path1 \o Tail(path2)

(* Faulty variant: the first leg is returned when the second fails. *)
find_optimal_route_Partial(start, goal, middle, grid, dose, w) ==
    LET d == IF dose = None THEN ZeroDoseMap ELSE dose
    IN  IF middle # None
        THEN LET path1 == run_astar(start, middle, grid, d, w)
             IN  IF path1 = None THEN None
                 ELSE LET path2 == run_astar(middle, goal, grid, d, w)
                      IN  IF path2 = None THEN path1
                          ELSE path1 \o Tail(path2)
        ELSE run_astar(start, goal, grid, d, w)

find_optimal_route(start, goal, middle, grid, dose, w) ==
    LET d == IF dose = None THEN ZeroDoseMap ELSE dose
    IN  IF middle # None
        THEN LET path1 == run_astar(start, middle, grid, d, w)
             IN  IF path1 = None THEN None
                 ELSE LET path2 == run_astar(middle, goal, grid, d, w)
                      IN  IF path2 = None THEN None
                          ELSE JoinLegs(path1, path2)
        ELSE run_astar(start, goal, grid, d, w)

----------------------------------------------------------------------------
(* resample_path_by_width.  Physical points are triples of integers and     *)
(* every segment of a polyline has an integral length, so that _distance    *)
(* and the interpolation are exact.                                         *)

IntSqrt(n) == CHOOSE k \in 0..n : k * k = n

_distance(p1, p2) ==
    IntSqrt((p2[1] - p1[1]) * (p2[1] - p1[1])
            + (p2[2] - p1[2]) * (p2[2] - p1[2])
            + (p2[3] - p1[3]) * (p2[3] - p1[3]))

(* ratio = num / den *)
_interpolate_point(p1, p2, num, den) ==
    [i \in 1..3 |-> p1[i] + (num * (p2[i] - p1[i])) \div den]

(* Faulty variant: no duplicate is removed. *)
dict_fromkeys_KeepsAll(s) == s

(* list(dict.fromkeys(s)): the first occurrence of every element, in order *)
RECURSIVE dict_fromkeys(_)
dict_fromkeys(s) ==
    IF s = <<>> THEN <<>>
    ELSE LET front == dict_fromkeys(SubSeq(s, 1, Len(s) - 1))
             last == s[Len(s)]
         IN  IF \E i \in 1..Len(front) : front[i] = last THEN front
             ELSE Append(front, last)

RECURSIVE TotalDistance(_, _)
TotalDistance(path, i) ==
    IF i >= Len(path) THEN 0
    ELSE _distance(path[i], path[i + 1]) + TotalDistance(path, i + 1)

(* d = step_width; while d < total_distance: append d; d += step_width *)
RECURSIVE DistancesToSample(_, _, _)
DistancesToSample(d, sw, total_distance) ==
    IF d < total_distance
    THEN <<d>> \o DistancesToSample(d + sw, sw, total_distance)
    ELSE <<>>

(* The inner while loop on the segment p1-p2 that starts at arc length      *)
(* seg_start and ends at seg_end: returns new_path and sample_idx           *)
(* (sample_idx counts from 1 here).                                         *)
RECURSIVE SampleSegment(_, _, _, _, _, _, _)
SampleSegment(p1, p2, seg_start, seg_end, samples, sample_idx, acc) ==
    IF /\ sample_idx <= Len(samples)
       /\ seg_start <= samples[sample_idx]
       /\ samples[sample_idx] < seg_end
    THEN LET dist_from_p1 == samples[sample_idx] - seg_start
             segment_len == _distance(p1, p2)
             interpolated_point == _interpolate_point(p1, p2, dist_from_p1, segment_len)
         IN  SampleSegment(p1, p2, seg_start, seg_end, samples, sample_idx + 1,
                           Append(acc, interpolated_point))
    ELSE [new_path |-> acc, sample_idx |-> sample_idx]

(* The for loop over the segments, from segment i on. *)
RECURSIVE WalkSegments(_, _, _, _, _, _)
WalkSegments(path, i, segment_start_dist, samples, sample_idx, acc) ==
    IF i >= Len(path) THEN acc
    ELSE LET p1 == path[i]
             p2 == path[i + 1]
             segment_len == _distance(p1, p2)
             segment_end_dist == segment_start_dist + segment_len
         IN  IF segment_len = 0
             THEN WalkSegments(path, i + 1, segment_start_dist, samples, sample_idx, acc)
             ELSE LET r == SampleSegment(p1, p2, segment_start_dist, segment_end_dist,
                                         samples, sample_idx, acc)
                  IN  WalkSegments(path, i + 1, segment_end_dist, samples,
                                   r.sample_idx, r.new_path)

resample_path_by_width(path, sw) ==
    IF path = <<>> \/ Len(path) < 2 \/ sw <= 0 THEN path
    ELSE LET total_distance == TotalDistance(path, 1)
             distances_to_sample == DistancesToSample(sw, sw, total_distance)
         IN  IF distances_to_sample = <<>>
             THEN IF total_distance > 0
                  THEN dict_fromkeys(<<path[1], path[Len(path)]>>)
                  ELSE dict_fromkeys(<<path[1]>>)
             ELSE dict_fromkeys(
                      Append(WalkSegments(path, 1, 0, distances_to_sample, 1, <<path[1]>>),
                             path[Len(path)]))

----------------------------------------------------------------------------
(* Inputs of the route search *)

SubsetsUpTo(S, k) == {W \in SUBSET S : Cardinality(W) <= k}

GridOf(W) == [r \in Rows |-> [c \in Cols |-> IF <<r, c>> \in W THEN WALL ELSE FLOOR]]

DoseOf(h) == [r \in Rows |-> [c \in Cols |->
                 IF <<r, c>> \in DOMAIN h THEN h[<<r, c>>] ELSE 0]]

Grids == {GridOf(W) : W \in SubsetsUpTo(Cells, MaxWalls)}

HotAssignments == UNION {[H -> 1..MaxDose] : H \in SubsetsUpTo(Cells, MaxHot)}

DoseMaps == {None} \cup {DoseOf(h) : h \in HotAssignments}

(* A search without waypoint: any dose map and weight. *)
InitDirect ==
    /\ map_data \in Grids
    /\ dose_map \in DoseMaps
    /\ weight \in 0..MaxWeight
    /\ start_pos \in Cells
    /\ goal_pos \in Cells
    /\ middle_pos = None

(* A search through a waypoint, before any dose map was loaded. *)
InitVia ==
    /\ map_data \in Grids
    /\ dose_map = None
    /\ weight = MaxWeight
    /\ start_pos \in Cells
    /\ goal_pos \in Cells
    /\ middle_pos \in Cells

Init ==
    /\ InitDirect \/ InitVia
    /\ full_path = None
    /\ physical_path = <<>>
    /\ step_width = 0
    /\ new_path = <<>>
    /\ NoMerger
    /\ pc = "call"

FindOptimalRoute ==
    /\ pc = "call"
    /\ full_path' = find_optimal_route(start_pos, goal_pos, middle_pos,
                                       map_data, dose_map, weight)
    /\ pc' = "done"
    /\ UNCHANGED <<map_data, dose_map, weight, start_pos, goal_pos, middle_pos,
                   physical_path, step_width, new_path, mergerVars, stepVars>>

Next == FindOptimalRoute

Spec == Init /\ [][Next]_vars

----------------------------------------------------------------------------
(* Inputs of the resampler: polylines of at most MaxPoints lattice points   *)
(* whose consecutive points coincide or differ along one axis, and the      *)
(* positive step widths that calculate_optimal_route lets through.  All     *)
(* points have the same height, as the cell centres have.                   *)

Points == (0..MaxCoord) \X (0..MaxCoord) \X {0}

AxisAligned(p, q) == Cardinality({i \in 1..3 : p[i] # q[i]}) <= 1

RECURSIVE PolylinesOf(_)
PolylinesOf(n) ==
    IF n = 1 THEN {<<p>> : p \in Points}
    ELSE UNION {{Append(s, p) : p \in {q \in Points : AxisAligned(s[Len(s)], q)}} :
                    s \in PolylinesOf(n - 1)}

InitResample ==
    /\ \E n \in 1..MaxPoints : physical_path \in PolylinesOf(n)
    /\ step_width \in 1..MaxStep
    /\ new_path = <<>>
    /\ map_data = GridOf({})
    /\ dose_map = None
    /\ weight = 0
    /\ start_pos = <<0, 0>>
    /\ goal_pos = <<0, 0>>
    /\ middle_pos = None
    /\ full_path = None
    /\ NoMerger
    /\ pc = "call"

Resample ==
    /\ pc = "call"
    /\ new_path' = resample_path_by_width(physical_path, step_width)
    /\ pc' = "done"
    /\ UNCHANGED <<map_data, dose_map, weight, start_pos, goal_pos, middle_pos,
                   full_path, physical_path, step_width, mergerVars, stepVars>>

NextResample == Resample

SpecResample == InitResample /\ [][NextResample]_vars

----------------------------------------------------------------------------
(* Reference notions for the route claims, defined without the search.      *)
(* A route leaves its first cell and enters each later cell by one grid     *)
(* move; it is wall-free when no entered cell is a wall.                    *)

Dose(r, c) == IF dose_map = None THEN 0 ELSE dose_map[r][c]

Enterable(c) == map_data[c[1]][c[2]] # WALL

Adjacent(a, b) == Abs(a[1] - b[1]) + Abs(a[2] - b[2]) = 1

EnterCost(c, w) == 1 + Dose(c[1], c[2]) * w

Manhattan(a, b) == Abs(a[1] - b[1]) + Abs(a[2] - b[2])

SetMin(S) == CHOOSE x \in S : \A y \in S : x <= y

NeighboursOf == [c \in Cells |-> {n \in Cells : Adjacent(n, c)}]

(* More than any route without a repeated cell can cost. *)
Unreached == MAP_ROWS * MAP_COLS * (1 + MaxDose * MaxWeight) + 1

(* Least cost of a wall-free route from the cells that dist maps to less    *)
(* than Unreached, to every cell, never entering a cell of avoid:           *)
(* relaxation to the fixed point.                                           *)
RECURSIVE Relax(_, _, _)
Relax(dist, w, avoid) ==
    LET next == [c \in Cells |->
                    IF ~Enterable(c) \/ c \in avoid THEN dist[c]
                    ELSE LET via == SetMin({dist[n] : n \in NeighboursOf[c]})
                         IN  IF via < Unreached /\ via + EnterCost(c, w) < dist[c]
                             THEN via + EnterCost(c, w)
                             ELSE dist[c]]
    IN  IF next = dist THEN dist ELSE Relax(next, w, avoid)

MinCosts(from, w) ==
    Relax([c \in Cells |-> IF c = from THEN 0 ELSE Unreached], w, {})

RouteExists(from, to) == MinCosts(from, 0)[to] < Unreached

RECURSIVE PathCost(_, _)
PathCost(path, w) ==
    IF Len(path) <= 1 THEN 0
    ELSE EnterCost(path[Len(path)], w) + PathCost(SubSeq(path, 1, Len(path) - 1), w)

Occurrences(c, path) == Cardinality({i \in 1..Len(path) : path[i] = c})

Distinct(path) == \A i, j \in 1..Len(path) : i # j => path[i] # path[j]

Returned == pc = "done"

WallCount == Cardinality({c \in Cells : ~Enterable(c)})

----------------------------------------------------------------------------
(* C1: whenever a wall-free route from start to goal exists, run_astar      *)
(* returns a path whose total cost (1 + dose * weight for each entered      *)
(* cell) is the least cost of all wall-free routes from start to goal; a    *)
(* search through a waypoint returns the two least costs added.             *)
C1_AstarMinimalCost ==
    Returned =>
        IF middle_pos = None
        THEN LET least == MinCosts(start_pos, weight)[goal_pos]
             IN  least < Unreached =>
                    /\ full_path # None
                    /\ PathCost(full_path, weight) = least
        ELSE LET least1 == MinCosts(start_pos, weight)[middle_pos]
                 least2 == MinCosts(middle_pos, weight)[goal_pos]
             IN  (least1 < Unreached /\ least2 < Unreached) =>
                    /\ full_path # None
                    /\ PathCost(full_path, weight) = least1 + least2

(* A dose cell lies on every shortest route and the returned path pays the  *)
(* detour instead.                                                          *)
C1_Witness ==
    /\ Returned
    /\ middle_pos = None
    /\ full_path # None
    /\ weight > 0
    /\ WallCount > 0
    /\ Len(full_path) - 1 > MinCosts(start_pos, 0)[goal_pos]
    /\ \E c \in Cells : Dose(c[1], c[2]) > 0 /\ Occurrences(c, full_path) = 0

(* C2: on a grid without walls, with no dose map and weight 0, the path     *)
(* from a to b has exactly manhattan_distance(a, b) + 1 cells.              *)
C2_OpenGridLength ==
    (Returned /\ middle_pos = None /\ WallCount = 0 /\ dose_map = None /\ weight = 0)
        => Len(full_path) = Manhattan(start_pos, goal_pos) + 1

C2_Witness ==
    /\ Returned /\ middle_pos = None /\ WallCount = 0 /\ dose_map = None /\ weight = 0
    /\ Manhattan(start_pos, goal_pos) = (MAP_ROWS - 1) + (MAP_COLS - 1)
    /\ Len(full_path) = MAP_ROWS + MAP_COLS - 1

(* C3: when no wall-free route connects start to a different goal, the      *)
(* call returns None (and no partial path), with or without a waypoint.     *)
C3_NoRouteReturnsNone ==
    (Returned /\ start_pos # goal_pos /\ ~RouteExists(start_pos, goal_pos))
        => full_path = None

C3_Witness ==
    /\ Returned
    /\ start_pos # goal_pos
    /\ ~RouteExists(start_pos, goal_pos)
    /\ Enterable(start_pos) /\ Enterable(goal_pos)
    /\ full_path = None

(* C4: a returned path begins at start, ends at goal, moves by one grid     *)
(* step at a time, stays in the grid, holds no wall cell except possibly    *)
(* as its first cell, and holds the waypoint when one is given.             *)
C4_PathWellFormed ==
    (Returned /\ full_path # None) =>
        /\ full_path[1] = start_pos
        /\ full_path[Len(full_path)] = goal_pos
        /\ \A i \in 1..(Len(full_path) - 1) : Adjacent(full_path[i], full_path[i + 1])
        /\ \A i \in 1..Len(full_path) : full_path[i] \in Cells
        /\ \A i \in 2..Len(full_path) : Enterable(full_path[i])
        /\ middle_pos # None => \E i \in 1..Len(full_path) : full_path[i] = middle_pos

C4_Witness ==
    /\ Returned
    /\ full_path # None
    /\ middle_pos # None
    /\ middle_pos \notin {start_pos, goal_pos}
    /\ WallCount > 0
    /\ Len(full_path) > Manhattan(start_pos, middle_pos)
                            + Manhattan(middle_pos, goal_pos) + 1

(* C5 as stated: every returned path, without and with a waypoint, is a     *)
(* sequence of pairwise distinct cells.  It is stated for the calls the     *)
(* map editor makes (start, goal and waypoint are different cells, start    *)
(* and waypoint are no walls), so that it fails on such a call.             *)
C5_AllCellsDistinct ==
    (/\ Returned
     /\ full_path # None
     /\ start_pos # goal_pos
     /\ middle_pos \notin {start_pos, goal_pos}
     /\ Enterable(start_pos)
     /\ middle_pos # None => Enterable(middle_pos))
        => Distinct(full_path)

(* C5 as amended: without a waypoint the cells of a returned path are       *)
(* pairwise distinct; with a waypoint the waypoint occurs exactly once,     *)
(* and the cells up to it and the cells from it on are each pairwise        *)
(* distinct (a cell may occur once in each leg).                            *)
C5_LegsDistinct ==
    (Returned /\ full_path # None) =>
        IF middle_pos = None THEN Distinct(full_path)
        ELSE /\ Occurrences(middle_pos, full_path) = 1
             /\ LET k == CHOOSE i \in 1..Len(full_path) : full_path[i] = middle_pos
                IN  /\ Distinct(SubSeq(full_path, 1, k))
                    /\ Distinct(SubSeq(full_path, k, Len(full_path)))

(* The second leg walks back over cells of the first. *)
C5_Witness ==
    /\ Returned
    /\ full_path # None
    /\ middle_pos # None
    /\ start_pos # goal_pos
    /\ middle_pos # start_pos
    /\ Enterable(start_pos)
    /\ ~Distinct(full_path)

(* C6: with a waypoint w the result is the path from a to w followed by     *)
(* the path from w to b without its first cell, w occurring exactly once;   *)
(* if either leg has no path the result is None.                            *)
C6_WaypointChaining ==
    (Returned /\ middle_pos # None) =>
        LET leg1 == find_optimal_route(start_pos, middle_pos, None,
                                       map_data, dose_map, weight)
            leg2 == find_optimal_route(middle_pos, goal_pos, None,
                                       map_data, dose_map, weight)
        IN  IF leg1 = None \/ leg2 = None THEN full_path = None
            ELSE /\ full_path = leg1 \o SubSeq(leg2, 2, Len(leg2))
                 /\ Occurrences(middle_pos, full_path) = 1

C6_Witness ==
    /\ Returned
    /\ middle_pos # None
    /\ middle_pos \notin {start_pos, goal_pos}
    /\ full_path # None
    /\ Len(full_path) >= 4

(* The second leg is blocked although the first is not. *)
C6_WitnessBlockedLeg ==
    /\ Returned
    /\ middle_pos # None
    /\ RouteExists(start_pos, middle_pos)
    /\ ~RouteExists(middle_pos, goal_pos)
    /\ full_path = None

(* C7: with a single cell h of nonzero dose, a larger weight never makes    *)
(* the returned path cross h more often, and once dose(h) * weight exceeds  *)
(* the extra hops of the shortest route avoiding h (none, when a route of   *)
(* equal hop count avoids h) the returned path avoids h.                    *)
HotCells == {c \in Cells : Dose(c[1], c[2]) > 0}

HopsAvoiding(h) ==
    IF h = start_pos THEN Unreached
    ELSE Relax([c \in Cells |-> IF c = start_pos THEN 0 ELSE Unreached], 0, {h})[goal_pos]

OnShortestRoute(h) ==
    LET fromStart == MinCosts(start_pos, 0)
        fromHot == MinCosts(h, 0)
    IN  /\ fromStart[goal_pos] < Unreached
        /\ Enterable(h) \/ h = start_pos
        /\ fromStart[h] + fromHot[goal_pos] = fromStart[goal_pos]

C7_DoseAvoidance ==
    (Returned /\ middle_pos = None /\ Cardinality(HotCells) = 1) =>
        LET h == CHOOSE c \in Cells : c \in HotCells
            detour == HopsAvoiding(h)
            shortest == MinCosts(start_pos, 0)[goal_pos]
        IN  /\ weight < MaxWeight =>
                   Occurrences(h, find_optimal_route(start_pos, goal_pos, middle_pos,
                                                     map_data, dose_map, weight + 1))
                       <= Occurrences(h, full_path)
            /\ (detour < Unreached /\ Dose(h[1], h[2]) * weight > detour - shortest)
                   => Occurrences(h, full_path) = 0

(* The hot cell lies on a shortest route, which the search takes at weight  *)
(* 0; at the weight of this call the path goes around it.                   *)
C7_Witness ==
    /\ Returned /\ middle_pos = None /\ Cardinality(HotCells) = 1
    /\ weight > 0
    /\ LET h == CHOOSE c \in Cells : c \in HotCells
       IN  /\ OnShortestRoute(h)
           /\ HopsAvoiding(h) = MinCosts(start_pos, 0)[goal_pos]
           /\ Occurrences(h, find_optimal_route(start_pos, goal_pos, middle_pos,
                                                 map_data, dose_map, 0)) = 1
           /\ full_path # None
           /\ Occurrences(h, full_path) = 0

----------------------------------------------------------------------------
(* Reference notions for the resampler claims, defined without the walk.    *)

First(s) == s[1]

Last(s) == s[Len(s)]

Interior(s) == IF Len(s) <= 2 THEN <<>> ELSE SubSeq(s, 2, Len(s) - 1)

(* Arc length of the polyline up to its point i. *)
RECURSIVE ArcLength(_, _)
ArcLength(path, i) ==
    IF i <= 1 THEN 0
    ELSE ArcLength(path, i - 1) + _distance(path[i - 1], path[i])

PathLength(path) == ArcLength(path, Len(path))

(* The point of the polyline at arc length d < PathLength(path), on the     *)
(* segment that contains d.                                                 *)
PointAt(path, d) ==
    LET i == CHOOSE k \in 1..(Len(path) - 1) :
                 ArcLength(path, k) <= d /\ d < ArcLength(path, k + 1)
        len == ArcLength(path, i + 1) - ArcLength(path, i)
    IN  [j \in 1..3 |->
            path[i][j] + ((d - ArcLength(path, i)) * (path[i + 1][j] - path[i][j])) \div len]

(* Number of multiples w, 2w, ... of w strictly below L. *)
MultiplesBelow(w, L) == IF L <= 0 THEN 0 ELSE (L - 1) \div w

SamplePoints(path, w) ==
    [k \in 1..MultiplesBelow(w, PathLength(path)) |-> PointAt(path, k * w)]

Resampled == pc = "done"

(* C8: the first element of the resampled path is path[0] and the last is   *)
(* path[-1], for every non-empty polyline, closed routes included.          *)
C8_EndpointsKept ==
    Resampled =>
        /\ First(new_path) = First(physical_path)
        /\ Last(new_path) = Last(physical_path)

(* C9: the interior points of the resampled path are exactly the points of  *)
(* the polyline at arc lengths w, 2w, ... strictly below its length L, in   *)
(* that order, and nothing is emitted for the arc length L.                 *)
C9_InteriorIsSamples ==
    Resampled => Interior(new_path) = SamplePoints(physical_path, step_width)

(* C10: when step_width (positive, as the caller guarantees) is at least    *)
(* the length of the polyline the result is [first, last], or [first] when  *)
(* first and last coincide, whatever points lie between them.               *)
C10_WideStep ==
    (Resampled /\ step_width >= PathLength(physical_path)) =>
        new_path = IF First(physical_path) = Last(physical_path)
                   THEN <<First(physical_path)>>
                   ELSE <<First(physical_path), Last(physical_path)>>

(* A closed route with points between its ends, no longer than the step. *)
C10_Witness ==
    /\ Resampled
    /\ Len(physical_path) >= 3
    /\ PathLength(physical_path) > 0
    /\ step_width >= PathLength(physical_path)
    /\ First(physical_path) = Last(physical_path)
    /\ new_path = <<First(physical_path)>>

(* An open polyline exactly as long as the step. *)
C10_WitnessOpen ==
    /\ Resampled
    /\ Len(physical_path) >= 3
    /\ step_width = PathLength(physical_path)
    /\ First(physical_path) # Last(physical_path)
    /\ new_path = <<First(physical_path), Last(physical_path)>>

(* Every pair of consecutive points of the polyline is exactly w apart. *)
EvenlySpaced(path, w) ==
    \A i \in 1..(Len(path) - 1) : _distance(path[i], path[i + 1]) = w

(* C11: a sequence whose consecutive points are all exactly step_width      *)
(* apart is returned unchanged by resample_path_by_width.                   *)
C11_EvenlySpacedFixed ==
    (Resampled /\ EvenlySpaced(physical_path, step_width)) =>
        new_path = physical_path

----------------------------------------------------------------------------
(* AdvancedPhitsMerger.  A text is the sequence of its lines, and a line is *)
(* a record of the tokens the merger's regular expressions look at:         *)
(*   t     what the line is: "hdr" a section header "[ label ]", "mat" a    *)
(*         material definition "mat[id] ...", "num" a line whose first      *)
(*         token is an integer (surface definition, volume entry), "cell"   *)
(*         such a line in the cell format "id mat density remainder",       *)
(*         "tr" a transform definition "Tr<id> ..." or "*Tr<id> ...",       *)
(*         "text" any other non-blank line, "blank" an empty line;          *)
(*   id    the defined identifier; mat the signed material field;           *)
(*   refs  the surface tokens of the remainder, each <<operator, id>> with  *)
(*         operator "+", "-", "#" or "" (unsigned);                         *)
(*   trcl  the identifier of the trcl parameter, 0 when there is none;      *)
(*   star  whether a transform definition starts with "*";                  *)
(*   txt   <<label>> for a header "[ label ]" and <<label, rest>> for a     *)
(*         header line with text behind the "]"; for another line the rest  *)
(*         of the line: <<>> or <<text it comes from, section, number>>.    *)

Line(t, id, mat, refs, trcl, star, txt) ==
    [t |-> t, id |-> id, mat |-> mat, refs |-> refs, trcl |-> trcl,
     star |-> star, txt |-> txt]

Hdr(label) == Line("hdr", 0, 0, <<>>, 0, FALSE, <<label>>)

HdrWith(label, rest) == Line("hdr", 0, 0, <<>>, 0, FALSE, <<label, rest>>)

MatDef(id, txt) == Line("mat", id, 0, <<>>, 0, FALSE, txt)

NumLine(id, txt) == Line("num", id, 0, <<>>, 0, FALSE, txt)

CellLine(id, mat, refs, trcl, txt) == Line("cell", id, mat, refs, trcl, FALSE, txt)

TrDef(id, star, txt) == Line("tr", id, 0, <<>>, 0, star, txt)

TextLine(txt) == Line("text", 0, 0, <<>>, 0, FALSE, txt)

BlankLine == Line("blank", 0, 0, <<>>, 0, FALSE, <<>>)

(* The section labels of the model and the key _parse derives from each:    *)
(* the label without its non-alphanumeric characters, in lower case.        *)
NormalisedLabel ==
    [Title |-> "title", TITLE |-> "title", Parameters |-> "parameters", Material |-> "material",
     Surface |-> "surface", Cell |-> "cell", Volume |-> "volume",
     Transform |-> "transform", Source |-> "source",
     T_Deposit |-> "tdeposit", T_End |-> "tend", End |-> "end",
     T_Track |-> "ttrack"]

Labels == DOMAIN NormalisedLabel

append_only_keys == <<"source", "tend">>

overwrite_keys == <<"title", "parameters", "tdeposit">>

merge_keys == <<"material", "surface", "cell", "volume", "transform">>

Elems(s) == {s[i] : i \in 1..Len(s)}

(* A section key is <<name>>, or <<name, i>> for the key "name_i" of an     *)
(* append-only section whose header is line i of its text.  No name of the  *)
(* model extends another, so key.startswith(prefix) compares the names.     *)
StartsWith(key, prefix) == key[1] = prefix

(* A dict of sections in insertion order: entries [key, header, lines]. *)
HasKey(d, key) == \E i \in 1..Len(d) : d[i].key = key

IndexOfKey(d, key) == CHOOSE i \in 1..Len(d) : d[i].key = key

Section(d, key) == d[IndexOfKey(d, key)]

(* d[key] = (header, lines) *)
SetSection(d, key, header, lines) ==
    LET e == [key |-> key, header |-> header, lines |-> lines]
    IN  IF HasKey(d, key) THEN [d EXCEPT ![IndexOfKey(d, key)] = e]
        ELSE Append(d, e)

(* d[key][1] becomes lines, in place *)
SetLines(d, key, lines) == [d EXCEPT ![IndexOfKey(d, key)].lines = lines]

IsHeader(line) == line.t = "hdr"

(* match.group(0).strip(): the bracketed label without what follows it *)
header_text(line) == Hdr(line.txt[1])

RECURSIVE ParseFrom(_, _, _, _)
ParseFrom(text, k, sections, current_key) ==
    IF k > Len(text) THEN sections
    ELSE LET line == text[k]
             i == k - 1
         IN  IF IsHeader(line)
             THEN LET name == NormalisedLabel[line.txt[1]]
                      key == IF name \in Elems(append_only_keys)
                             THEN <<name, i>> ELSE <<name>>
                      secs == IF HasKey(sections, key) THEN sections
                              ELSE SetSection(sections, key, header_text(line), <<>>)
                  IN  ParseFrom(text, k + 1, secs, key)
             ELSE IF current_key # None
             THEN ParseFrom(text, k + 1,
                            SetLines(sections, current_key,
                                     Append(Section(sections, current_key).lines, line)),
                            current_key)
             ELSE ParseFrom(text, k + 1, sections, current_key)

_parse(text) == ParseFrom(text, 1, <<>>, None)

----------------------------------------------------------------------------
(* _renumber_and_map_ids *)

id_types == <<"mat", "cell", "surf", "trans">>

section_keys ==
    [mat |-> "material", cell |-> "cell", surf |-> "surface", trans |-> "transform"]

(* pattern.match(line) for the defining-line pattern of the namespace *)
PatternMatches(id_type, line) ==
    CASE id_type = "mat" -> line.t = "mat"
      [] id_type = "trans" -> line.t = "tr"
      [] OTHER -> line.t \in {"num", "cell"}

SetMax_Least(S) == CHOOSE x \in S : \A y \in S : x <= y

(* max(base_ids) *)
SetMax(S) == CHOOSE x \in S : \A y \in S : y <= x

(* Identifiers defined in the sections of d whose key starts with name. *)
DefinedIds(d, id_type) ==
    UNION {{d[s].lines[j].id :
                j \in {j \in 1..Len(d[s].lines) :
                           PatternMatches(id_type, d[s].lines[j])}} :
              s \in {s \in 1..Len(d) :
                         StartsWith(d[s].key, section_keys[id_type])}}

Collides_Always(old_id, base_ids) == TRUE

Collides(old_id, base_ids) == old_id \in base_ids

(* The defining line with its identifier token replaced: "mat[new_id]",     *)
(* "*Tr<new_id>", or "<new_id> " for a leading integer.                     *)
RewriteDefinition(id_type, line, new_id) ==
    IF id_type = "trans" THEN [line EXCEPT !.id = new_id, !.star = TRUE]
    ELSE [line EXCEPT !.id = new_id]

(* The loop over the overlay's lines of one section: returns the new lines  *)
(* and the namespace's old -> new map.                                      *)
RECURSIVE RenumberLines(_, _, _, _, _, _, _)
RenumberLines(id_type, lines, k, base_ids, next_id, map, new_lines) ==
    IF k > Len(lines) THEN [lines |-> new_lines, map |-> map]
    ELSE LET line == lines[k]
         IN  IF ~PatternMatches(id_type, line)
             THEN RenumberLines(id_type, lines, k + 1, base_ids, next_id, map,
                                Append(new_lines, line))
             ELSE LET old_id == line.id
                      hit == Collides(old_id, base_ids)
                      new_id == IF hit THEN next_id ELSE old_id
                  IN  RenumberLines(id_type, lines, k + 1, base_ids,
                                    IF hit THEN next_id + 1 ELSE next_id,
                                    (old_id :> new_id) @@ map,
                                    Append(new_lines,
                                           RewriteDefinition(id_type, line, new_id)))

(* One round of the loop over the namespaces; st = [base, ovl, maps]. *)
RenumberType(id_type, st) ==
    LET key == <<section_keys[id_type]>>
        base_ids == DefinedIds(st.base, id_type)
        max_base_id == IF base_ids = {} THEN 0 ELSE SetMax(base_ids)
    IN  IF ~HasKey(st.ovl, key) THEN st
        ELSE LET r == RenumberLines(id_type, Section(st.ovl, key).lines, 1,
                                    base_ids, max_base_id + 1,
                                    st.maps[id_type], <<>>)
             IN  [st EXCEPT !.ovl = SetLines(st.ovl, key, r.lines),
                            !.maps = [st.maps EXCEPT ![id_type] = r.map]]

RECURSIVE RenumberFrom(_, _)
RenumberFrom(n, st) ==
    IF n > Len(id_types) THEN st
    ELSE RenumberFrom(n + 1, RenumberType(id_types[n], st))

_renumber_and_map_ids(st) == RenumberFrom(1, st)

----------------------------------------------------------------------------
(* _update_references *)

MapGet(map, id) == IF id \in DOMAIN map THEN map[id] ELSE id

(* new material field: the mapped identifier with the sign of the old one *)
RelinkMaterial(maps, mat_id) ==
    IF Abs(mat_id) \in DOMAIN maps.mat
    THEN IF mat_id < 0 THEN -(maps.mat[Abs(mat_id)]) ELSE maps.mat[Abs(mat_id)]
    ELSE mat_id

(* The operators of the pattern ([+\-#])(\d+); an unsigned token has none. *)
SurfaceOperators == {"+", "-", "#"}

replace_surf(maps, ref) ==
    IF ref[1] \in SurfaceOperators THEN <<ref[1], MapGet(maps.surf, ref[2])>>
    ELSE ref

replace_trans(maps, trcl) == IF trcl = 0 THEN 0 ELSE MapGet(maps.trans, trcl)

(* cell_line_pattern.match(line) *)
IsCellLine(line) == line.t = "cell"

RelinkLine(maps, line) ==
    IF ~IsCellLine(line) THEN line
    ELSE [line EXCEPT !.mat = RelinkMaterial(maps, line.mat),
                      !.refs = [n \in 1..Len(line.refs) |->
                                   replace_surf(maps, line.refs[n])],
                      !.trcl = replace_trans(maps, line.trcl)]

_update_references(st) ==
    IF ~HasKey(st.ovl, <<"cell">>) THEN st
    ELSE LET lines == Section(st.ovl, <<"cell">>).lines
         IN  [st EXCEPT !.ovl = SetLines(st.ovl, <<"cell">>,
                                   [n \in 1..Len(lines) |-> RelinkLine(st.maps, lines[n])])]

----------------------------------------------------------------------------
(* merge: the exclusion of the overlay's detector cells from the air cell *)

AIR_CELL == 1000

(* detector_cell_pattern.match(line): a leading integer and "trcl=1" *)
IsDetectorCell(line) == line.t \in {"num", "cell"} /\ line.trcl = 1

(* air_cell_pattern.match(line) *)
IsAirCell(line) == line.t \in {"num", "cell"} /\ line.id = AIR_CELL

RECURSIVE DetectorIdsFrom(_, _, _)
DetectorIdsFrom(s, k, acc) ==
    IF k > Len(s) THEN acc
    ELSE DetectorIdsFrom(s, k + 1, IF IsDetectorCell(s[k]) THEN Append(acc, s[k].id) ELSE acc)

merge_detector_ids(ovl) ==
    IF HasKey(ovl, <<"cell">>) THEN DetectorIdsFrom(Section(ovl, <<"cell">>).lines, 1, <<>>)
    ELSE <<>>

(* main_part + " " + exclusion_str *)
WithExclusions(line, ids) ==
    [line EXCEPT !.refs = line.refs \o [n \in 1..Len(ids) |-> <<"#", ids[n]>>]]

ExcludeDetectors(st) ==
    LET ids == merge_detector_ids(st.ovl)
    IN  IF HasKey(st.base, <<"cell">>) /\ ids # <<>>
        THEN LET lines == Section(st.base, <<"cell">>).lines
             IN  [st EXCEPT !.base = SetLines(st.base, <<"cell">>,
                                       [n \in 1..Len(lines) |->
                                           IF IsAirCell(lines[n])
                                           THEN WithExclusions(lines[n], ids)
                                           ELSE lines[n]])]
        ELSE st

----------------------------------------------------------------------------
(* _render_output *)

IsAppendOnly(key) == \E k \in Elems(append_only_keys) : StartsWith(key, k)

IsOverwrite_Never(key) == FALSE

IsOverwrite(key) == Len(key) = 1 /\ key[1] \in Elems(overwrite_keys)

IsMergeKey(key) == Len(key) = 1 /\ key[1] \in Elems(merge_keys)

CellLinesMerged_BaseFirst(lines, base_lines) == base_lines \o lines

(* lines + final_sections[key][1] *)
CellLinesMerged(lines, base_lines) == lines \o base_lines

LinesExtended_OverlayFirst(base_lines, lines) == lines \o base_lines

(* final_sections[key][1].extend(lines) *)
LinesExtended(base_lines, lines) == base_lines \o lines

(* The loop over the overlay's sections.  final_sections is a shallow copy  *)
(* of base_sections, so the in-place changes of a list reach both: acc is   *)
(* [final, base].                                                           *)
RECURSIVE CombineFrom(_, _, _)
CombineFrom(ovl, n, acc) ==
    IF n > Len(ovl) THEN acc
    ELSE LET key == ovl[n].key
             header == ovl[n].header
             lines == ovl[n].lines
             rebound == [acc EXCEPT !.final = SetSection(acc.final, key, header, lines)]
             InPlace(new_lines) ==
                 [final |-> SetLines(acc.final, key, new_lines),
                  base |-> SetLines(acc.base, key, new_lines)]
         IN  CombineFrom(ovl, n + 1,
                 IF IsAppendOnly(key) THEN rebound
                 ELSE IF IsOverwrite(key) THEN rebound
                 ELSE IF IsMergeKey(key)
                 THEN IF ~HasKey(acc.final, key) THEN rebound
                      ELSE IF key = <<"cell">>
                      THEN InPlace(CellLinesMerged(lines, Section(acc.final, key).lines))
                      ELSE InPlace(LinesExtended(Section(acc.final, key).lines, lines))
                 ELSE IF ~HasKey(acc.final, key) THEN rebound
                 ELSE acc)

order == <<"title", "parameters", "material", "surface", "cell", "volume",
           "transform", "source", "tdeposit", "tend">>

(* The decimal digits of a natural, and Python's order of strings on them. *)
RECURSIVE Digits(_)
Digits(n) == IF n < 10 THEN <<n>> ELSE Append(Digits(n \div 10), n % 10)

RECURSIVE StrLess(_, _)
StrLess(a, b) ==
    IF a = <<>> THEN b # <<>>
    ELSE IF b = <<>> THEN FALSE
    ELSE a[1] < b[1] \/ (a[1] = b[1] /\ StrLess(Tail(a), Tail(b)))

(* Faulty variant: the suffixes are compared as numbers. *)
KeyLess_Numeric(a, b) ==
    IF Len(a) = 1 THEN Len(b) > 1
    ELSE Len(b) > 1 /\ a[2] < b[2]

(* Order of two keys of the same name: "name" before "name_i", and the      *)
(* suffixes as strings.                                                     *)
KeyLess(a, b) ==
    IF Len(a) = 1 THEN Len(b) > 1
    ELSE Len(b) > 1 /\ StrLess(Digits(a[2]), Digits(b[2]))

(* sorted([k for k in final_sections if k.startswith(key_prefix)]) *)
RECURSIVE SortedKeys(_)
SortedKeys(K) ==
    IF K = {} THEN <<>>
    ELSE LET m == CHOOSE a \in K : \A b \in K \ {a} : KeyLess(a, b)
         IN  <<m>> \o SortedKeys(K \ {m})

keys_to_write(final, key_prefix) ==
    SortedKeys({final[n].key : n \in {n \in 1..Len(final) :
                                         StartsWith(final[n].key, key_prefix)}})

IsBlank(line) == line.t = "blank"

RECURSIVE NonBlank(_)
NonBlank(lines) ==
    IF lines = <<>> THEN <<>>
    ELSE IF IsBlank(Head(lines)) THEN NonBlank(Tail(lines))
    ELSE <<Head(lines)>> \o NonBlank(Tail(lines))

(* header, the non-blank lines, and an empty line *)
RenderedSection(e) == <<e.header>> \o NonBlank(e.lines) \o <<BlankLine>>

RECURSIVE WriteKeys(_, _, _, _)
WriteKeys(final, keys, n, w) ==
    IF n > Len(keys) THEN w
    ELSE WriteKeys(final, keys, n + 1,
                   IF keys[n] \in w.written_keys THEN w
                   ELSE [output_lines |-> w.output_lines
                                            \o RenderedSection(Section(final, keys[n])),
                         written_keys |-> w.written_keys \cup {keys[n]}])

RECURSIVE WriteFrom(_, _, _)
WriteFrom(final, p, w) ==
    IF p > Len(order) THEN w
    ELSE WriteFrom(final, p + 1, WriteKeys(final, keys_to_write(final, order[p]), 1, w))

(* "\n".join(output_lines), as the lines of the joined text: the empty      *)
(* string that ends output_lines only ends the last line.                   *)
Joined(output_lines) ==
    IF output_lines = <<>> THEN <<>>
    ELSE SubSeq(output_lines, 1, Len(output_lines) - 1)

(* Returns the text and what the in-place changes left in base_sections. *)
_render_output(st) ==
    LET acc == CombineFrom(st.ovl, 1, [final |-> st.base, base |-> st.base])
        w == WriteFrom(acc.final, 1, [output_lines |-> <<>>, written_keys |-> {}])
    IN  [base |-> acc.base, text |-> Joined(w.output_lines)]

----------------------------------------------------------------------------
(* merge() on the object state st = [base, ovl, maps]: the new object state *)
(* and the returned text.                                                   *)
merge(st) ==
    LET linked == ExcludeDetectors(_update_references(_renumber_and_map_ids(st)))
        r == _render_output(linked)
    IN  [base |-> r.base, ovl |-> linked.ovl, maps |-> linked.maps, text |-> r.text]

----------------------------------------------------------------------------
(* Inputs of the merger.                                                    *)

MaxId == 3
MaxBaseIds == 2
MaxDefs == 2
MaxSections == 2
MaxMerges == 2

RECURSIVE DistinctSeqs(_, _)
DistinctSeqs(S, n) ==
    IF n = 0 THEN {<<>>}
    ELSE UNION {{Append(s, x) : x \in S \ Elems(s)} : s \in DistinctSeqs(S, n - 1)}

RECURSIVE Flatten(_)
Flatten(ss) == IF ss = <<>> THEN <<>> ELSE Head(ss) \o Flatten(Tail(ss))

SectionText(label, lines) == IF lines = <<>> THEN <<>> ELSE <<Hdr(label)>> \o lines

(* An environment text that defines the identifiers 1..n[namespace] in its  *)
(* material, surface, cell and transform sections, and the air cell.        *)
BaseWithIds(n, air) ==
    Flatten(<<
        SectionText("Material", [k \in 1..n.mat |-> MatDef(k, <<"b", "mat", k>>)]),
        SectionText("Surface", [k \in 1..n.surf |-> NumLine(k, <<"b", "surf", k>>)]),
        SectionText("Cell",
            [k \in 1..n.cell |->
                CellLine(k, IF k <= n.mat THEN k ELSE 0,
                         <<<<"-", IF k <= n.surf THEN k ELSE 1>>>>, 0,
                         <<"b", "cell", k>>)]
            \o (IF air THEN <<CellLine(AIR_CELL, 0, <<<<"", 1>>>>, 0, <<"b", "cell", 0>>)>>
                ELSE <<>>)),
        SectionText("Transform", [k \in 1..n.trans |-> TrDef(k, TRUE, <<"b", "trans", k>>)])
    >>)

(* A detector text that defines the identifiers ids, in this order, in each *)
(* of the four namespaces.  Its k-th cell is filled with the k-th material  *)
(* (written with the given sign), bounded by the k-th surface through the   *)
(* operator op and by the surface counted from the end, and placed by the   *)
(* k-th transform; the volume section lists the cells.                      *)
OverlayWithIds(ids, op, negative, star) ==
    LET N == Len(ids)
    IN  Flatten(<<
        SectionText("Material", [k \in 1..N |-> MatDef(ids[k], <<"o", "mat", k>>)]),
        SectionText("Surface", [k \in 1..N |-> NumLine(ids[k], <<"o", "surf", k>>)]),
        SectionText("Cell",
            [k \in 1..N |->
                CellLine(ids[k], IF negative THEN -(ids[k]) ELSE ids[k],
                         <<<<op, ids[k]>>, <<"-", ids[N + 1 - k]>>>>, ids[k],
                         <<"o", "cell", k>>)]),
        SectionText("Transform", [k \in 1..N |-> TrDef(ids[k], star, <<"o", "trans", k>>)]),
        SectionText("Volume", [k \in 1..N |-> NumLine(ids[k], <<"o", "vol", k>>)])
    >>)

BaseCounts == [mat : 1..MaxBaseIds, surf : 1..MaxBaseIds, cell : 1..MaxBaseIds,
               trans : 0..1]

OverlayIds == UNION {DistinctSeqs(1..MaxId, n) : n \in 1..MaxDefs}

InitIds ==
    /\ \E n \in BaseCounts, air \in BOOLEAN : base_content = BaseWithIds(n, air)
    /\ \E ids \in OverlayIds, op \in SurfaceOperators \cup {""},
          negative \in BOOLEAN, star \in BOOLEAN :
           merge_content = OverlayWithIds(ids, op, negative, star)

(* A text of sections of any labels, each with two lines of content around  *)
(* an empty line.                                                           *)
Block(origin, label, n) ==
    <<Hdr(label), TextLine(<<origin, label, 2 * n - 1>>), BlankLine,
      TextLine(<<origin, label, 2 * n>>)>>

RECURSIVE LabelSeqs(_)
LabelSeqs(n) ==
    IF n = 0 THEN {<<>>}
    ELSE LabelSeqs(n - 1)
         \cup {Append(s, l) : s \in {t \in LabelSeqs(n - 1) : Len(t) = n - 1}, l \in Labels}

TextOfBlocks(origin, labels) ==
    Flatten([n \in 1..Len(labels) |-> Block(origin, labels[n], n)])

InitSections ==
    /\ \E labels \in LabelSeqs(MaxSections) : base_content = TextOfBlocks("b", labels)
    /\ \E labels \in LabelSeqs(MaxSections) : merge_content = TextOfBlocks("o", labels)

(* A text of such sections whose header lines may carry a word behind the  *)
(* bracket ("[ T-Track ] off"), with or without a line before the first     *)
(* header; nothing to merge into it.                                        *)
WithRest(text) ==
    [i \in 1..Len(text) |->
        IF IsHeader(text[i]) THEN HdrWith(text[i].txt[1], "off") ELSE text[i]]

InitHeaders ==
    /\ \E labels \in LabelSeqs(MaxSections), off \in BOOLEAN, preamble \in BOOLEAN :
           base_content =
               (IF preamble THEN <<TextLine(<<"b", "", 0>>)>> ELSE <<>>)
               \o (IF off THEN WithRest(TextOfBlocks("b", labels))
                   ELSE TextOfBlocks("b", labels))
    /\ merge_content = <<>>

(* An environment text with up to MaxSources source sections, the header of *)
(* the fourth on line 12, before or without a title section, and a detector *)
(* text with source sections of its own.                                    *)
MaxSources == 4

InitSources ==
    /\ \E k \in 1..MaxSources, title \in BOOLEAN :
           base_content = TextOfBlocks("b", [n \in 1..k |-> "Source"]
                                            \o (IF title THEN <<"Title">> ELSE <<>>))
    /\ \E k \in 0..MaxSections :
           merge_content = TextOfBlocks("o", [n \in 1..k |-> "Source"])

InitMerge ==
    /\ InitIds \/ InitSections \/ InitHeaders \/ InitSources
    /\ base_sections = <<>>
    /\ merge_sections = <<>>
    /\ id_maps = <<>>
    /\ merged = <<>>
    /\ search = <<>>
    /\ popped = <<>>
    /\ expanded = <<>>
    /\ cell = <<>>
    /\ coords = <<>>
    /\ map_data = GridOf({})
    /\ dose_map = None
    /\ weight = 0
    /\ start_pos = <<0, 0>>
    /\ goal_pos = <<0, 0>>
    /\ middle_pos = None
    /\ full_path = None
    /\ physical_path = <<>>
    /\ step_width = 0
    /\ new_path = <<>>
    /\ pc = "new"

routeVars == <<map_data, dose_map, weight, start_pos, goal_pos, middle_pos,
               full_path, physical_path, step_width, new_path>>

(* merger = AdvancedPhitsMerger(base_content, merge_content) *)
Construct ==
    /\ pc = "new"
    /\ base_sections' = _parse(base_content)
    /\ merge_sections' = _parse(merge_content)
    /\ id_maps' = [mat |-> <<>>, cell |-> <<>>, surf |-> <<>>, trans |-> <<>>]
    /\ pc' = "ready"
    /\ UNCHANGED <<routeVars, stepVars, base_content, merge_content, merged>>

(* merger.merge() *)
Merge ==
    /\ pc = "ready"
    /\ Len(merged) < MaxMerges
    /\ LET r == merge([base |-> base_sections, ovl |-> merge_sections, maps |-> id_maps])
       IN  /\ base_sections' = r.base
           /\ merge_sections' = r.ovl
           /\ id_maps' = r.maps
           /\ merged' = Append(merged, r.text)
    /\ UNCHANGED <<routeVars, stepVars, base_content, merge_content, pc>>

NextMerge == Construct \/ Merge

SpecMerge == InitMerge /\ [][NextMerge]_vars

----------------------------------------------------------------------------
(* Reference notions for the merger claims.                                 *)

Namespaces == Elems(id_types)

(* The two texts as they were parsed at construction. *)
BaseParsed == _parse(base_content)

OverlayParsed == _parse(merge_content)

(* merge() has returned at least once; Output is what the first call        *)
(* returned.                                                                *)
MergedOnce == Len(merged) >= 1

Output == merged[1]

OutputParsed == _parse(Output)

(* The positions <<section, line>> of the defining lines of a namespace. *)
DefPositions(d, id_type) ==
    {p \in UNION {{<<s, j>> : j \in 1..Len(d[s].lines)} : s \in 1..Len(d)} :
        /\ StartsWith(d[p[1]].key, section_keys[id_type])
        /\ PatternMatches(id_type, d[p[1]].lines[p[2]])}

NoDuplicateIds(d, id_type) ==
    \A p, q \in DefPositions(d, id_type) :
        d[p[1]].lines[p[2]].id = d[q[1]].lines[q[2]].id => p = q

(* C12: when neither text defines an identifier twice in a namespace, the   *)
(* merged document defines no identifier twice in any of the four           *)
(* namespaces.                                                              *)
C12_NoDuplicateIds ==
    (/\ MergedOnce
     /\ \A ns \in Namespaces :
           NoDuplicateIds(BaseParsed, ns) /\ NoDuplicateIds(OverlayParsed, ns))
        => \A ns \in Namespaces : NoDuplicateIds(OutputParsed, ns)

(* Lines are told apart by their rest-of-line text, which no step of the    *)
(* merger changes.                                                          *)
HasLine(text, txt) == \E i \in 1..Len(text) : text[i].txt = txt

LineOf(text, txt) == text[CHOOSE i \in 1..Len(text) : text[i].txt = txt]

(* The lines of the overlay's (resp. base's) section of a namespace, as     *)
(* written in the text.                                                     *)
OverlayLines(id_type) ==
    IF HasKey(OverlayParsed, <<section_keys[id_type]>>)
    THEN Section(OverlayParsed, <<section_keys[id_type]>>).lines ELSE <<>>

BaseLines(id_type) ==
    IF HasKey(BaseParsed, <<section_keys[id_type]>>)
    THEN Section(BaseParsed, <<section_keys[id_type]>>).lines ELSE <<>>

BaseIds(id_type) == DefinedIds(BaseParsed, id_type)

(* The overlay's defining lines of a namespace, in line order, and those    *)
(* whose identifier the base defines too.                                   *)
OverlayDefs(id_type) ==
    SelectSeq(OverlayLines(id_type), LAMBDA l : PatternMatches(id_type, l))

CollidingDefs(id_type) ==
    SelectSeq(OverlayDefs(id_type), LAMBDA l : l.id \in BaseIds(id_type))

OverlayIds_Of(id_type) == {OverlayDefs(id_type)[k].id : k \in 1..Len(OverlayDefs(id_type))}

(* The identifier an overlay definition carries in the merged document. *)
MergedId(line) == LineOf(Output, line.txt).id

(* The identifier the overlay's definition of old_id carries after merge. *)
MergedIdOf(id_type, old_id) ==
    LET defs == OverlayDefs(id_type)
    IN  MergedId(defs[CHOOSE k \in 1..Len(defs) : defs[k].id = old_id])

RECURSIVE NextUnused(_, _)
NextUnused(n, used) == IF n \in used THEN NextUnused(n + 1, used) ELSE n

(* The identifiers that "the next unused integer from max(base ids) + 1,    *)
(* in line order" gives the colliding definitions: unused by the base, by   *)
(* the overlay's own definitions and by the earlier assignments.            *)
RECURSIVE UnusedIdsFrom(_, _, _)
UnusedIdsFrom(count, n, used) ==
    IF count = 0 THEN <<>>
    ELSE LET m == NextUnused(n, used)
         IN  <<m>> \o UnusedIdsFrom(count - 1, m + 1, used \cup {m})

ExpectedNewIds(id_type) ==
    UnusedIdsFrom(Len(CollidingDefs(id_type)),
                  (IF BaseIds(id_type) = {} THEN 0 ELSE SetMax(BaseIds(id_type))) + 1,
                  BaseIds(id_type) \cup OverlayIds_Of(id_type))

RenumberedToNextUnused(id_type) ==
    \A k \in 1..Len(CollidingDefs(id_type)) :
        MergedId(CollidingDefs(id_type)[k]) = ExpectedNewIds(id_type)[k]

(* The overlay's cell lines in the cell format. *)
OverlayCells == SelectSeq(OverlayLines("cell"), IsCellLine)

IsCollidingId(id_type, id) ==
    id \in OverlayIds_Of(id_type) /\ id \in BaseIds(id_type)

(* Every reference of an overlay cell line to a colliding overlay           *)
(* identifier names, after merge, the identifier its definition was given.  *)
ReferencesFollow ==
    \A c \in 1..Len(OverlayCells) :
        LET old == OverlayCells[c]
            new == LineOf(Output, old.txt)
        IN  /\ IsCollidingId("mat", Abs(old.mat)) =>
                   /\ Abs(new.mat) = MergedIdOf("mat", Abs(old.mat))
                   /\ (new.mat < 0) = (old.mat < 0)
            /\ \A n \in 1..Len(old.refs) :
                   (old.refs[n][1] \in SurfaceOperators
                        /\ IsCollidingId("surf", old.refs[n][2])) =>
                       new.refs[n] = <<old.refs[n][1], MergedIdOf("surf", old.refs[n][2])>>
            /\ IsCollidingId("trans", old.trcl) =>
                   new.trcl = MergedIdOf("trans", old.trcl)

(* The base's definition of a colliding identifier is in the merged         *)
(* document as it was written.                                              *)
CollidingBaseDefsKept ==
    \A ns \in Namespaces :
        \A j \in 1..Len(BaseLines(ns)) :
            LET l == BaseLines(ns)[j]
            IN  (PatternMatches(ns, l) /\ l.id \in OverlayIds_Of(ns)) =>
                    LineOf(Output, l.txt) = l

(* C13: a colliding overlay definition is renumbered to the next unused     *)
(* integer from max(base ids) + 1 in line order, the overlay's cell lines   *)
(* that referred to it (material field with its sign, signed surface        *)
(* tokens, trcl) refer to the new identifier, and the base's definition of  *)
(* the identifier is unchanged.                                             *)
C13_CollisionRenumbered ==
    MergedOnce =>
        /\ \A ns \in Namespaces : RenumberedToNextUnused(ns)
        /\ ReferencesFollow
        /\ CollidingBaseDefsKept

(* The second and third part of C13 alone: they hold in every state. *)
C13_ReferencesAndBaseOnly == MergedOnce => ReferencesFollow /\ CollidingBaseDefsKept

(* C14: an overlay definition whose identifier the base does not define in *)
(* that namespace carries the same identifier after merge, and every        *)
(* reference of an overlay cell line to an identifier that did not collide  *)
(* (material field, surface tokens, trcl) is the same token after merge.    *)
C14_NonCollidingKept ==
    MergedOnce =>
        /\ \A ns \in Namespaces :
               \A k \in 1..Len(OverlayDefs(ns)) :
                   OverlayDefs(ns)[k].id \notin BaseIds(ns) =>
                       MergedId(OverlayDefs(ns)[k]) = OverlayDefs(ns)[k].id
        /\ \A c \in 1..Len(OverlayCells) :
               LET old == OverlayCells[c]
                   new == LineOf(Output, old.txt)
               IN  /\ ~IsCollidingId("mat", Abs(old.mat)) => new.mat = old.mat
                   /\ Len(new.refs) = Len(old.refs)
                   /\ \A n \in 1..Len(old.refs) :
                          ~IsCollidingId("surf", old.refs[n][2]) =>
                              new.refs[n] = old.refs[n]
                   /\ ~IsCollidingId("trans", old.trcl) => new.trcl = old.trcl

(* The overlay defines a colliding and a non-colliding identifier in every  *)
(* namespace; a cell refers to the non-colliding material, surface and      *)
(* transform, and after the merge, which renumbered the colliding           *)
(* definitions, it still does.                                              *)
C14_Witness ==
    /\ MergedOnce
    /\ \A ns \in Namespaces :
           /\ Len(CollidingDefs(ns)) >= 1
           /\ Len(CollidingDefs(ns)) < Len(OverlayDefs(ns))
           /\ MergedId(CollidingDefs(ns)[1]) # CollidingDefs(ns)[1].id
    /\ \E c \in 1..Len(OverlayCells) :
           LET old == OverlayCells[c]
           IN  /\ old.id \notin BaseIds("cell")
               /\ old.mat < 0 /\ ~IsCollidingId("mat", Abs(old.mat))
               /\ old.refs[1][1] = "#" /\ ~IsCollidingId("surf", old.refs[1][2])
               /\ old.trcl # 0 /\ ~IsCollidingId("trans", old.trcl)
               /\ LineOf(Output, old.txt).id = old.id
               /\ LineOf(Output, old.txt).mat = old.mat
               /\ LineOf(Output, old.txt).refs[1] = old.refs[1]
               /\ LineOf(Output, old.txt).trcl = old.trcl

(* The entries of the overlay's volume section: each names a cell. *)
OverlayVolumeEntries ==
    IF HasKey(OverlayParsed, <<"volume">>)
    THEN SelectSeq(Section(OverlayParsed, <<"volume">>).lines, LAMBDA l : l.t = "num")
    ELSE <<>>

(* C15: after merge every reference of the overlay to an identifier the     *)
(* overlay defines -- in a cell line (material field, surface tokens, trcl) *)
(* or in another section that names a cell (volume) -- carries the          *)
(* identifier that the overlay's definition carries in the merged document. *)
C15_ReferencesResolve ==
    MergedOnce =>
        /\ \A c \in 1..Len(OverlayCells) :
               LET old == OverlayCells[c]
                   new == LineOf(Output, old.txt)
               IN  /\ Abs(old.mat) \in OverlayIds_Of("mat") =>
                          Abs(new.mat) = MergedIdOf("mat", Abs(old.mat))
                   /\ \A n \in 1..Len(old.refs) :
                          old.refs[n][2] \in OverlayIds_Of("surf") =>
                              new.refs[n][2] = MergedIdOf("surf", old.refs[n][2])
                   /\ old.trcl \in OverlayIds_Of("trans") =>
                          new.trcl = MergedIdOf("trans", old.trcl)
        /\ \A v \in 1..Len(OverlayVolumeEntries) :
               LET old == OverlayVolumeEntries[v]
               IN  old.id \in OverlayIds_Of("cell") =>
                       LineOf(Output, old.txt).id = MergedIdOf("cell", old.id)

(* Number of section headers of a kind in a text. *)
HeaderCount(text, name) ==
    Cardinality({i \in 1..Len(text) :
                    IsHeader(text[i]) /\ NormalisedLabel[text[i].txt[1]] = name})

(* C16: for the append-only kinds the merged document has as many sections  *)
(* of the kind as the base and the overlay have together, wherever their    *)
(* headers stand in the two texts.                                          *)
C16_AppendOnlyCounted ==
    MergedOnce =>
        \A name \in Elems(append_only_keys) :
            HeaderCount(Output, name)
                = HeaderCount(base_content, name) + HeaderCount(merge_content, name)

(* The section of a kind as the merged document shows it: its header and    *)
(* its content lines.                                                       *)
OutputHas(name) == HasKey(OutputParsed, <<name>>)

OutputHeader(name) == Section(OutputParsed, <<name>>).header

OutputContent(name) == NonBlank(Section(OutputParsed, <<name>>).lines)

(* C17: for an overwrite kind the overlay defines, the merged document has  *)
(* the overlay's header and content lines for the kind and no content line  *)
(* of the base's section; for one only the base defines, it has the base's  *)
(* header and content lines.                                                *)
C17_OverwriteKinds ==
    MergedOnce =>
        \A name \in Elems(overwrite_keys) :
            /\ HasKey(OverlayParsed, <<name>>) =>
                   /\ OutputHas(name)
                   /\ OutputHeader(name) = Section(OverlayParsed, <<name>>).header
                   /\ OutputContent(name) = NonBlank(Section(OverlayParsed, <<name>>).lines)
                   /\ HasKey(BaseParsed, <<name>>) =>
                          \A j \in 1..Len(Section(BaseParsed, <<name>>).lines) :
                              LET l == Section(BaseParsed, <<name>>).lines[j]
                              IN  ~IsBlank(l) => ~HasLine(Output, l.txt)
            /\ (~HasKey(OverlayParsed, <<name>>) /\ HasKey(BaseParsed, <<name>>)) =>
                   /\ OutputHas(name)
                   /\ OutputHeader(name) = Section(BaseParsed, <<name>>).header
                   /\ OutputContent(name) = NonBlank(Section(BaseParsed, <<name>>).lines)

(* Both texts have a title section, under differently written headers; the  *)
(* merged document shows the overlay's.                                     *)
C17_Witness ==
    /\ MergedOnce
    /\ HasKey(BaseParsed, <<"title">>) /\ HasKey(OverlayParsed, <<"title">>)
    /\ Section(BaseParsed, <<"title">>).header # Section(OverlayParsed, <<"title">>).header
    /\ Section(BaseParsed, <<"title">>).lines # <<>>
    /\ OutputHas("title")
    /\ OutputHeader("title") = Section(OverlayParsed, <<"title">>).header
    /\ Len(OutputContent("title")) = 2

(* Only the base has a tally section of an overwrite kind. *)
C17_WitnessBaseOnly ==
    /\ MergedOnce
    /\ HasKey(BaseParsed, <<"tdeposit">>) /\ ~HasKey(OverlayParsed, <<"tdeposit">>)
    /\ merge_content # <<>>
    /\ OutputHas("tdeposit")
    /\ Len(OutputContent("tdeposit")) = 2

(* The rest-of-line texts of the non-blank lines, in order: which lines     *)
(* they are, whatever identifiers they now carry.                           *)
Texts(lines) == [n \in 1..Len(NonBlank(lines)) |-> NonBlank(lines)[n].txt]

InBoth(name) == HasKey(BaseParsed, <<name>>) /\ HasKey(OverlayParsed, <<name>>)

(* C18: for a merge kind present in both texts, the merged cell section is  *)
(* the overlay's lines followed by the base's lines, and the merged         *)
(* material, surface, volume and transform sections are the base's lines    *)
(* followed by the overlay's, each text's lines in their own order.         *)
C18_MergeKindOrder ==
    MergedOnce =>
        \A name \in Elems(merge_keys) :
            InBoth(name) =>
                /\ OutputHas(name)
                /\ Texts(Section(OutputParsed, <<name>>).lines)
                     = IF name = "cell"
                       THEN Texts(Section(OverlayParsed, <<name>>).lines)
                                \o Texts(Section(BaseParsed, <<name>>).lines)
                       ELSE Texts(Section(BaseParsed, <<name>>).lines)
                                \o Texts(Section(OverlayParsed, <<name>>).lines)

(* Both texts have two cells and two materials, some of them renumbered. *)
C18_Witness ==
    /\ MergedOnce
    /\ InBoth("cell") /\ InBoth("material")
    /\ Len(Texts(Section(BaseParsed, <<"cell">>).lines)) >= 2
    /\ Len(Texts(Section(OverlayParsed, <<"cell">>).lines)) >= 2
    /\ Len(Texts(Section(BaseParsed, <<"material">>).lines)) >= 2
    /\ Len(Texts(Section(OverlayParsed, <<"material">>).lines)) >= 2
    /\ Len(CollidingDefs("cell")) >= 1
    /\ Texts(Section(OutputParsed, <<"cell">>).lines)[1][1] = "o"
    /\ Texts(Section(OutputParsed, <<"material">>).lines)[1][1] = "b"

(* Both texts have a volume section. *)
C18_WitnessVolume ==
    /\ MergedOnce
    /\ InBoth("volume")
    /\ Len(Texts(Section(OutputParsed, <<"volume">>).lines)) = 4

(* The merged document has, somewhere, this header directly followed by     *)
(* lines with these rest-of-line texts.                                     *)
OutputShows(header, texts) ==
    \E i \in 1..Len(Output) :
        /\ Output[i] = header
        /\ i + Len(texts) <= Len(Output)
        /\ \A k \in 1..Len(texts) : Output[i + k].txt = texts[k]

OverlayOnly(e) == ~HasKey(BaseParsed, e.key)

(* C19: a section whose key only the overlay has is in the merged document  *)
(* with its header and its non-blank content lines, whatever its kind.      *)
C19_OverlayOnlyCarried ==
    MergedOnce =>
        \A n \in 1..Len(OverlayParsed) :
            OverlayOnly(OverlayParsed[n]) =>
                OutputShows(OverlayParsed[n].header, Texts(OverlayParsed[n].lines))

(* The same for the kinds of the canonical ordering list only. *)
C19_ListedKindsCarried ==
    MergedOnce =>
        \A n \in 1..Len(OverlayParsed) :
            (OverlayOnly(OverlayParsed[n]) /\ OverlayParsed[n].key[1] \in Elems(order)) =>
                OutputShows(OverlayParsed[n].header, Texts(OverlayParsed[n].lines))

MergedTwice == Len(merged) >= 2

(* C20: a second call of merge() on the same object returns the text the    *)
(* first call returned.                                                     *)
C20_MergeRepeatable == MergedTwice => merged[2] = merged[1]

----------------------------------------------------------------------------
(* Claims on the parser.                                                    *)

Constructed == pc = "ready"

(* The key of the header on line i of a text. *)
KeyAt(text, i) ==
    LET name == NormalisedLabel[text[i].txt[1]]
    IN  IF name \in Elems(append_only_keys) THEN <<name, i - 1>> ELSE <<name>>

HeaderLines(text) == {i \in 1..Len(text) : IsHeader(text[i])}

WellFormed(text) ==
    /\ text # <<>> => IsHeader(text[1])
    /\ \A i, j \in HeaderLines(text) : KeyAt(text, i) = KeyAt(text, j) => i = j

(* Each entry's header followed by its lines, entry after entry. *)
Reassembled(d) == Flatten([n \in 1..Len(d) |-> <<d[n].header>> \o d[n].lines])

RoundTrip(text) ==
    /\ Len(_parse(text)) = Cardinality(HeaderLines(text))
    /\ Reassembled(_parse(text)) = text

(* C21: for a text that opens with a header and whose N headers have        *)
(* distinct keys, _parse returns N entries, and the entries' headers and    *)
(* lines, in order, are the lines of the text.                              *)
C21_ParseRoundTrip ==
    Constructed =>
        /\ WellFormed(base_content) => RoundTrip(base_content)
        /\ WellFormed(merge_content) => RoundTrip(merge_content)

(* The same for texts whose header lines end with the bracket. *)
PlainHeaders(text) == \A i \in HeaderLines(text) : Len(text[i].txt) = 1

C21_PlainHeadersRoundTrip ==
    Constructed =>
        /\ (WellFormed(base_content) /\ PlainHeaders(base_content))
               => RoundTrip(base_content)
        /\ (WellFormed(merge_content) /\ PlainHeaders(merge_content))
               => RoundTrip(merge_content)

-----------------------------------------------------------------------------
(* The coordinate mapper: src/utils.py.                                     *)

(* app_config.py: the physical size of one cell; the model keeps whole      *)
(* centimetres.                                                             *)
CELL_SIZE_X == 2
CELL_SIZE_Y == 3
CELL_HEIGHT_Z == 4

(* How far outside the grid the addresses handed to the mapper lie. *)
MaxOutside == 3

(* get_physical_coords(r, c): plain arithmetic on r and c, with no look-up  *)
(* in any grid and no raise statement.                                      *)
get_physical_coords(r, c) ==
    LET x_min == c * CELL_SIZE_X
        x_max == (c + 1) * CELL_SIZE_X
        y_max == (MAP_ROWS - r) * CELL_SIZE_Y
        y_min == (MAP_ROWS - r - 1) * CELL_SIZE_Y
        z_min == 0
        z_max == CELL_HEIGHT_Z
    IN  <<x_min, x_max, y_min, y_max, z_min, z_max>>

InitCoords ==
    /\ cell \in ((0 - MaxOutside)..(MAP_ROWS - 1 + MaxOutside))
                \X ((0 - MaxOutside)..(MAP_COLS - 1 + MaxOutside))
    /\ coords = <<>>
    /\ search = <<>>
    /\ popped = <<>>
    /\ expanded = <<>>
    /\ map_data = GridOf({})
    /\ dose_map = None
    /\ weight = 0
    /\ start_pos = None
    /\ goal_pos = None
    /\ middle_pos = None
    /\ full_path = None
    /\ physical_path = <<>>
    /\ step_width = 1
    /\ new_path = <<>>
    /\ base_content = <<>>
    /\ merge_content = <<>>
    /\ base_sections = <<>>
    /\ merge_sections = <<>>
    /\ id_maps = <<>>
    /\ merged = <<>>
    /\ pc = "ask"

(* A caller converts the address; the call returns the six bounds. *)
GetPhysicalCoords ==
    /\ pc = "ask"
    /\ coords' = [raised |-> FALSE, value |-> get_physical_coords(cell[1], cell[2])]
    /\ pc' = "told"
    /\ UNCHANGED <<routeVars, mergerVars, search, popped, expanded, cell>>

NextCoords == GetPhysicalCoords

SpecCoords == InitCoords /\ [][NextCoords]_vars

Converted == pc = "told"

InGrid(rc) == rc[1] \in 0..(MAP_ROWS - 1) /\ rc[2] \in 0..(MAP_COLS - 1)

(* C22: get_physical_coords fails with an index error whenever (r, c) lies  *)
(* outside the grid, and returns bounds only for addresses inside the grid. *)
C22_FailsOutsideGrid ==
    Converted => (coords.raised <=> ~InGrid(cell))

(* What the code does instead: it returns the bounds of the formulas for    *)
(* every pair of integers, inside the grid or not.                          *)
C22_BoundsForEveryAddress ==
    Converted =>
        /\ ~coords.raised
        /\ coords.value[1] = cell[2] * CELL_SIZE_X
        /\ coords.value[2] = coords.value[1] + CELL_SIZE_X
        /\ coords.value[4] = (MAP_ROWS - cell[1]) * CELL_SIZE_Y
        /\ coords.value[3] = coords.value[4] - CELL_SIZE_Y
        /\ coords.value[5] = 0
        /\ coords.value[6] = CELL_HEIGHT_Z

-----------------------------------------------------------------------------
(* Claims on the air cell's exclusions and on renumbering.                  *)

(* The base's air-cell lines, and its other cell-section lines. *)
BaseAirCells == SelectSeq(BaseLines("cell"), IsAirCell)

(* The air-cell lines of the merged document all carry #id. *)
ExcludedFromAir(id) ==
    \A a \in 1..Len(BaseAirCells) :
        <<"#", id>> \in Elems(LineOf(Output, BaseAirCells[a].txt).refs)

OtherBaseCellsKept ==
    \A j \in 1..Len(BaseLines("cell")) :
        LET l == BaseLines("cell")[j]
        IN  (~IsBlank(l) /\ ~IsAirCell(l)) => LineOf(Output, l.txt) = l

(* C23: for every cell line that the overlay text writes with trcl=1, the   *)
(* merged air-cell line (id 1000) carries #<id> with the cell's identifier  *)
(* after renumbering, whether the cell or the transform was renumbered or   *)
(* not; no base cell line other than the air cell is altered.               *)
C23_DetectorsExcluded ==
    MergedOnce =>
        /\ \A c \in 1..Len(OverlayLines("cell")) :
               IsDetectorCell(OverlayLines("cell")[c]) =>
                   ExcludedFromAir(MergedId(OverlayLines("cell")[c]))
        /\ OtherBaseCellsKept

(* What holds in every state: the cells whose trcl reads 1 after the        *)
(* references were re-linked are excluded, that is, those written with      *)
(* trcl=1 when the base defines no transform 1; the other base cell lines   *)
(* are as written.                                                          *)
C23_ExcludedUnlessRelinked ==
    MergedOnce =>
        /\ \A c \in 1..Len(OverlayLines("cell")) :
               (/\ IsDetectorCell(OverlayLines("cell")[c])
                /\ ~IsCollidingId("trans", 1)) =>
                   ExcludedFromAir(MergedId(OverlayLines("cell")[c]))
        /\ OtherBaseCellsKept

(* An overlay definition as the merged document shows it, with the          *)
(* identifier and the references of the written line put back: what is left *)
(* to differ is the rest of the line and the '*' of a transform.            *)
WithWrittenIds(line) ==
    [LineOf(Output, line.txt) EXCEPT !.id = line.id, !.mat = line.mat,
                                     !.refs = line.refs, !.trcl = line.trcl]

(* C24: renumbering rewrites only the identifier token of a defining line:  *)
(* a transform definition written without a leading '*' stays without it,   *)
(* and a line whose identifier did not collide is unchanged.                *)
C24_OnlyIdentifierRewritten ==
    MergedOnce =>
        \A ns \in Namespaces :
            \A k \in 1..Len(OverlayDefs(ns)) :
                LET l == OverlayDefs(ns)[k]
                IN  /\ WithWrittenIds(l) = l
                    /\ l.id \notin BaseIds(ns) => MergedId(l) = l.id

(* What holds in every state: only the identifier token changes, except     *)
(* that every transform definition of the overlay has the '*' afterwards.   *)
C24_OnlyIdentifierAndStar ==
    MergedOnce =>
        \A ns \in Namespaces :
            \A k \in 1..Len(OverlayDefs(ns)) :
                LET l == OverlayDefs(ns)[k]
                IN  /\ WithWrittenIds(l) =
                           [l EXCEPT !.star = IF ns = "trans" THEN TRUE ELSE l.star]
                    /\ l.id \notin BaseIds(ns) => MergedId(l) = l.id

(* The identifiers given to the colliding definitions of a namespace, in    *)
(* the overlay's line order.                                                *)
AssignedIds(id_type) ==
    [k \in 1..Len(CollidingDefs(id_type)) |-> MergedId(CollidingDefs(id_type)[k])]

(* C25: in every namespace the identifiers assigned to colliding            *)
(* definitions start at max(base ids) + 1, strictly increase in the         *)
(* overlay's line order, are pairwise distinct and are all greater than     *)
(* every base identifier.                                                   *)
C25_AssignedIdsAscend ==
    MergedOnce =>
        \A ns \in Namespaces :
            LET new == AssignedIds(ns)
            IN  /\ new # <<>> => new[1] - 1 \in BaseIds(ns)
                /\ \A j, k \in 1..Len(new) : j < k => new[j] < new[k]
                /\ \A j, k \in 1..Len(new) : j # k => new[j] # new[k]
                /\ \A k \in 1..Len(new) : \A b \in BaseIds(ns) : b < new[k]

(* Two definitions of the overlay's cell section collide with base cells 1  *)
(* and 2, and were given 3 and 4 in line order, the overlay listing cell 2  *)
(* before cell 1.                                                           *)
C25_Witness ==
    /\ MergedOnce
    /\ BaseIds("cell") = {1, 2}
    /\ Len(CollidingDefs("cell")) = 2
    /\ CollidingDefs("cell")[1].id = 2
    /\ AssignedIds("cell") = <<3, 4>>

-----------------------------------------------------------------------------
(* Claims on the final dedupe of the resampler.                             *)

(* A sequence with every run of adjacent equal elements reduced to one. *)
RECURSIVE CollapseRuns(_)
CollapseRuns(s) ==
    IF Len(s) <= 1 THEN s
    ELSE LET front == CollapseRuns(SubSeq(s, 1, Len(s) - 1))
         IN  IF s[Len(s)] = s[Len(s) - 1] THEN front ELSE Append(front, s[Len(s)])

(* [first, samples..., last] of the polyline, before any dedupe. *)
Undeduped(path, w) == <<First(path)>> \o SamplePoints(path, w) \o <<Last(path)>>

(* C26: the final dedupe collapses adjacent duplicates only: the result is  *)
(* [first, samples..., last] with each run of adjacent equal points reduced *)
(* to one, and a point that recurs later, not adjacently, is kept.          *)
C26_AdjacentDuplicatesOnly ==
    Resampled => new_path = CollapseRuns(Undeduped(physical_path, step_width))

(* What holds in every state: the first occurrence of each point of         *)
(* [first, samples..., last], in order; this is the claim's sequence        *)
(* whenever no point recurs after another point.                            *)
C26_FirstOccurrencesOnly ==
    Resampled =>
        LET all == Undeduped(physical_path, step_width)
        IN  /\ \A i, j \in 1..Len(new_path) : new_path[i] = new_path[j] => i = j
            /\ Elems(new_path) = Elems(all)
            /\ (\A i, j \in 1..Len(all) :
                    (i < j /\ all[i] = all[j]) => all[i + 1] = all[i])
                   => new_path = CollapseRuns(all)

-----------------------------------------------------------------------------
(* run_astar, one iteration of its while loop at a time: find_optimal_route *)
(* has replaced a missing dose map by zeros and calls run_astar(start,      *)
(* goal, grid, dose_map, weight).                                           *)

InitSearch ==
    /\ map_data \in Grids
    /\ dose_map \in DoseMaps \ {None}
    /\ weight \in 0..MaxWeight
    /\ start_pos \in Cells
    /\ goal_pos \in Cells
    /\ middle_pos = None
    /\ search = AstarInit(start_pos)
    /\ popped = <<>>
    /\ expanded = <<>>
    /\ cell = <<>>
    /\ coords = <<>>
    /\ full_path = None
    /\ physical_path = <<>>
    /\ step_width = 0
    /\ new_path = <<>>
    /\ base_content = <<>>
    /\ merge_content = <<>>
    /\ base_sections = <<>>
    /\ merge_sections = <<>>
    /\ id_maps = <<>>
    /\ merged = <<>>
    /\ pc = "loop"

(* while queue: pop the least entry; return its path, skip it, or expand    *)
(* its cell.                                                                *)
AstarPop ==
    /\ pc = "loop"
    /\ search.queue # <<>>
    /\ search' = AstarStep(search, goal_pos, map_data, dose_map, weight)
    /\ popped' = [entry |-> search.queue[HeapMinIndex(search.queue)],
                  index |-> HeapMinIndex(search.queue),
                  queue |-> search.queue]
    /\ expanded' = IF search'.visited = search.visited THEN expanded
                   ELSE Append(expanded, search.queue[HeapMinIndex(search.queue)][3])
    /\ pc' = IF search'.returned THEN "found" ELSE "loop"
    /\ UNCHANGED <<routeVars, mergerVars, cell, coords>>

(* The queue is empty: return None. *)
AstarExhausted ==
    /\ pc = "loop"
    /\ search.queue = <<>>
    /\ search' = AstarStep(search, goal_pos, map_data, dose_map, weight)
    /\ pc' = "none"
    /\ UNCHANGED <<routeVars, mergerVars, popped, expanded, cell, coords>>

NextSearch == AstarPop \/ AstarExhausted

SpecSearch == InitSearch /\ [][NextSearch]_vars

(* The searches towards the far corner of the grid, from any start, at the  *)
(* largest weight; the interpreter keeps running the loop until the         *)
(* function returns.                                                        *)
InitSearchToCorner ==
    /\ InitSearch
    /\ weight = MaxWeight
    /\ goal_pos = <<MAP_ROWS - 1, MAP_COLS - 1>>

FairSpecSearch ==
    InitSearchToCorner /\ [][NextSearch]_vars /\ WF_vars(NextSearch)

-----------------------------------------------------------------------------
(* Claims on the order of the pops and on termination.                      *)

Popped == popped # <<>>

(* Entry a comes before entry b in the order of (cost, row, column). *)
BeforeByCostAndCell(a, b) ==
    \/ a[2] < b[2]
    \/ a[2] = b[2] /\ a[3][1] < b[3][1]
    \/ a[2] = b[2] /\ a[3][1] = b[3][1] /\ a[3][2] <= b[3][2]

(* C27: of the frontier entries with the same priority, the one pushed      *)
(* first is popped first: a pop never passes over an entry of its priority  *)
(* that was pushed earlier.                                                 *)
C27_TiesInsertionOrder ==
    Popped =>
        \A j \in 1..Len(popped.queue) :
            /\ popped.entry[1] <= popped.queue[j][1]
            /\ popped.queue[j][1] = popped.entry[1] => popped.index <= j

(* C27 as the code has it: every pop takes an entry of least priority, and  *)
(* of the entries with that priority the one of least cost, then least row, *)
(* then least column, whenever it was pushed.                               *)
C27_TiesTupleOrder ==
    Popped =>
        \A j \in 1..Len(popped.queue) :
            /\ popped.entry[1] <= popped.queue[j][1]
            /\ popped.queue[j][1] = popped.entry[1] =>
                   BeforeByCostAndCell(popped.entry, popped.queue[j])

(* A pop that passed over an earlier pushed entry of the same priority and  *)
(* cost, taking the entry of the cell with the smaller row.                 *)
C27_Witness ==
    /\ Popped
    /\ \E j \in 1..Len(popped.queue) :
           /\ j < popped.index
           /\ popped.queue[j][1] = popped.entry[1]
           /\ popped.queue[j][2] = popped.entry[2]
           /\ popped.entry[3][1] < popped.queue[j][3][1]

-----------------------------------------------------------------------------
(* Claims on the order of the rendered sections.                            *)

Canonical == <<"title", "parameters", "material", "surface", "cell", "volume",
               "transform", "source", "tdeposit", "tend">>

Rank(name) == CHOOSE n \in 1..Len(Canonical) : Canonical[n] = name

(* The key under which the section that starts at line i of the merged      *)
(* document was held: the key of the header above its first content line in *)
(* the text that line came from.                                            *)
RenderedKey(i) ==
    LET txt == Output[i + 1].txt
        text == IF txt[1] = "b" THEN base_content ELSE merge_content
        p == CHOOSE p \in 1..Len(text) : text[p].txt = txt
        h == CHOOSE h \in HeaderLines(text) :
                 h < p /\ \A g \in HeaderLines(text) : g < p => g <= h
    IN  KeyAt(text, h)

(* Python's order of the decimal strings of two different naturals. *)
RECURSIVE DecimalLength(_)
DecimalLength(n) == IF n < 10 THEN 1 ELSE 1 + DecimalLength(n \div 10)

RECURSIVE TenTo(_)
TenTo(k) == IF k = 0 THEN 1 ELSE 10 * TenTo(k - 1)

DecimalStringBefore(a, b) ==
    IF DecimalLength(a) <= DecimalLength(b)
    THEN a * TenTo(DecimalLength(b) - DecimalLength(a)) <= b
    ELSE a < b * TenTo(DecimalLength(a) - DecimalLength(b))

(* C28: the sections of the merged document appear in the canonical order   *)
(* of prefixes title, parameters, material, surface, cell, volume,          *)
(* transform, source, tdeposit, tend; the keys that share a prefix appear   *)
(* in sorted (string) order of the keys; no key is rendered twice.          *)
C28_CanonicalOrder ==
    MergedOnce =>
        \A i, j \in HeaderLines(Output) :
            i < j =>
                LET a == RenderedKey(i)
                    b == RenderedKey(j)
                IN  /\ Rank(a[1]) <= Rank(b[1])
                    /\ a # b
                    /\ a[1] = b[1] =>
                           /\ Len(a) = 2 /\ Len(b) = 2
                           /\ DecimalStringBefore(a[2], b[2])

(* The title, written last in the environment text, comes first, and the    *)
(* source section of line 12 comes before the one of line 8.                *)
C28_Witness ==
    /\ MergedOnce
    /\ \E i, j, k \in HeaderLines(Output) :
           /\ i < j /\ j < k
           /\ RenderedKey(i) = <<"title">>
           /\ RenderedKey(j) = <<"source", 12>>
           /\ RenderedKey(k) = <<"source", 8>>

(* No cell was expanded (added to visited, its neighbours pushed) twice. *)
ExpandedOnce ==
    \A i, j \in 1..Len(expanded) : expanded[i] = expanded[j] => i = j

(* The loop is left in one of two ways only: the goal was popped and the    *)
(* popped path is returned, or the frontier is empty and None is returned.  *)
ReturnedRight ==
    /\ search.returned <=> pc \in {"found", "none"}
    /\ pc = "found" =>
           /\ popped.entry[3] = goal_pos
           /\ search.result = popped.entry[4]
           /\ search.result # None
    /\ pc = "none" => search.queue = <<>> /\ search.result = None

(* C29: on every grid, with non-negative dose and weight, run_astar         *)
(* terminates: after finitely many pops either the goal is popped and a     *)
(* path is returned or the frontier is empty and None is returned; no cell  *)
(* is expanded more than once.                                              *)
C29_Terminates ==
    /\ [](ExpandedOnce /\ ReturnedRight)
    /\ <>(pc \in {"found", "none"})

(* Why the loop ends, for every start, goal, grid, dose map and weight of   *)
(* SpecSearch: every pop either adds a cell to visited, or leaves visited   *)
(* alone and shortens the queue.                                            *)
C29_EveryPopProgresses ==
    [][AstarPop =>
          \/ Cardinality(search'.visited) = Cardinality(search.visited) + 1
          \/ /\ search'.visited = search.visited
             /\ Len(search'.queue) = Len(search.queue) - 1]_vars

C29_LoopInvariant == ExpandedOnce /\ ReturnedRight

(* The search ended with an empty frontier after expanding five cells or    *)
(* more, the goal being walled off.                                         *)
C29_Witness ==
    /\ pc = "none"
    /\ search.returned
    /\ Len(expanded) >= 5
    /\ goal_pos \notin Elems(expanded)

-----------------------------------------------------------------------------
(* The map editor: src/main.py, on_cell_click and                           *)
(* clear_existing_special_cell.                                             *)

(* app_config.py: the cell-type codes of the tools (floor, wall, start,     *)
(* goal, waypoint, radiation source).                                       *)
CELL_TYPES == {0, 1, 2, 3, 4, 9}

(* if new_id in [2, 3, 4] *)
SpecialIds == {2, 3, 4}

(* The editing sessions explored paint at most MaxPainted cells. *)
MaxPainted == 4

(* Faulty variant: nothing is cleared. *)
clear_existing_special_cell_Nothing(grid, target_id) == grid

(* The first cell in row-major order that holds target_id becomes floor. *)
clear_existing_special_cell(grid, target_id) ==
    LET holds == {p \in Cells : grid[p[1]][p[2]] = target_id}
    IN  IF holds = {} THEN grid
        ELSE LET first == CHOOSE p \in holds : \A q \in holds \ {p} : LessCell(p, q)
             IN  [grid EXCEPT ![first[1]][first[2]] = FLOOR]

on_cell_click(grid, r, c, new_id) ==
    LET cleared == IF new_id \in SpecialIds
                   THEN clear_existing_special_cell(grid, new_id)
                   ELSE grid
    IN  [cleared EXCEPT ![r][c] = new_id]

Painted(grid) == {p \in Cells : grid[p[1]][p[2]] # FLOOR}

(* MainApplication.__init__: the all-floor map. *)
InitEdit ==
    /\ map_data = GridOf({})
    /\ dose_map = None
    /\ weight = 0
    /\ start_pos = None
    /\ goal_pos = None
    /\ middle_pos = None
    /\ full_path = None
    /\ physical_path = <<>>
    /\ step_width = 0
    /\ new_path = <<>>
    /\ NoMerger
    /\ pc = "edit"

(* The user clicks cell (r, c) with any tool selected. *)
OnCellClick ==
    /\ pc = "edit"
    /\ \E r \in Rows, c \in Cols, new_id \in CELL_TYPES :
           /\ map_data' = on_cell_click(map_data, r, c, new_id)
           /\ Cardinality(Painted(map_data')) <= MaxPainted
    /\ UNCHANGED <<dose_map, weight, start_pos, goal_pos, middle_pos, full_path,
                   physical_path, step_width, new_path, mergerVars, stepVars, pc>>

NextEdit == OnCellClick

SpecEdit == InitEdit /\ [][NextEdit]_vars

CellsHolding(id) == {p \in Cells : map_data[p[1]][p[2]] = id}

(* C30: from the all-floor map, after any sequence of clicks with any tools *)
(* on any cells, at most one cell holds the start code 2, at most one the   *)
(* goal code 3 and at most one the waypoint code 4.                         *)
C30_AtMostOneSpecial ==
    pc = "edit" =>
        /\ Cardinality(CellsHolding(2)) <= 1
        /\ Cardinality(CellsHolding(3)) <= 1
        /\ Cardinality(CellsHolding(4)) <= 1

(* A map with a start, a goal and a waypoint, one of each, and a wall. *)
C30_Witness ==
    /\ pc = "edit"
    /\ Cardinality(CellsHolding(2)) = 1
    /\ Cardinality(CellsHolding(3)) = 1
    /\ Cardinality(CellsHolding(4)) = 1
    /\ CellsHolding(WALL) # {}

(* A click with a special tool moves the code: the cell that held it, if it *)
(* is not the clicked one, is floor afterwards.                             *)
C30_SpecialMoves ==
    [][\A id \in SpecialIds : \A p \in CellsHolding(id) :
           (\E q \in Cells : q # p /\ map_data[q[1]][q[2]] # id
                                   /\ map_data'[q[1]][q[2]] = id)
               => map_data'[p[1]][p[2]] = FLOOR]_vars

====
